---- MODULE Spec2Model ----
(***************************************************************************)
(* Model of the household budget tracker: the calendar engine              *)
(* (school_calendar.py), the balance projector (compute_remaining and the  *)
(* index page) and the ledger operations of app.py.                        *)
(*                                                                         *)
(* Money is held in cents (an amount of 100.7 is 10070), so that floor,    *)
(* ceil and round act on exact values.  A Python None / SQL NULL is the    *)
(* empty tuple and a number x in a nullable column is the 1-tuple <<x>>.   *)
(***************************************************************************)
EXTENDS Integers, Sequences, FiniteSets, TLC

VARIABLES
    today,                \* date.today(), a record [year, month, day]
    school,               \* last result of is_school_day(today)
    food,                 \* last result of calculate_girls_food(today.year, today.month)
    page,                 \* what the last index() rendered: remaining, days, per_day
    args,                 \* the seven arguments of a direct compute_remaining call
    result,               \* what that call returned
    use_postgres,         \* USE_POSTGRES: which engine the DB wrapper talks to
    settings,             \* table settings: key -> value (cents)
    expense_template,     \* table expense_template: set of rows
    current_expenses,     \* table current_expenses: set of rows
    pending_transactions, \* table pending_transactions: set of rows
    seq,                  \* the AUTOINCREMENT / SERIAL counters of the two ledgers
    resets,               \* number of month-reset POSTs made so far
    reset_mark,           \* the current_expenses id counter when the last completed reset began
    last                  \* the response to the last POST request: its status, the
                          \* exception that ended it and, for a month reset, its form

vars == <<today, school, food, page, args, result, use_postgres, settings,
          expense_template, current_expenses, pending_transactions, seq,
          resets, reset_mark, last>>

calendar_vars == <<today, school, food>>
call_vars     == <<args, result>>
db_vars       == <<use_postgres, settings, expense_template, current_expenses,
                   pending_transactions, seq, resets, reset_mark, last>>

-----------------------------------------------------------------------------
(* Representation of values *)

None == << >>
Num(x) == <<x>>
IsNone(v) == v = None
Val(v) == v[1]

\* One currency unit in cents.
Unit == 100

\* math.floor and math.ceil of an amount in cents, as a whole number of units.
floor(c) == c \div Unit
ceil(c) == -((-c) \div Unit)

\* Python truthiness of a nullable amount: None and 0.0 are falsy.
Truthy(v) == ~IsNone(v) /\ Val(v) # 0

-----------------------------------------------------------------------------
(* datetime.date and calendar.monthrange *)

FirstYear == 2025
NumYears == 4

Years == FirstYear .. (FirstYear + NumYears - 1)

IsLeap(y) == (y % 4 = 0) /\ ((y % 100 # 0) \/ (y % 400 = 0))

\* calendar.monthrange(year, month)[1]
monthrange(y, m) ==
    IF m = 2 THEN (IF IsLeap(y) THEN 29 ELSE 28)
    ELSE IF m \in {4, 6, 9, 11} THEN 30 ELSE 31

date(y, m, d) == [year |-> y, month |-> m, day |-> d]

Dates == {date(y, m, d) : y \in Years, m \in 1..12, d \in 1..31} \
         {x \in {date(y, m, d) : y \in Years, m \in 1..12, d \in 29..31} :
             x.day > monthrange(x.year, x.month)}

RECURSIVE DaysBeforeMonth(_, _)
DaysBeforeMonth(y, m) ==
    IF m = 1 THEN 0 ELSE DaysBeforeMonth(y, m - 1) + monthrange(y, m - 1)

\* date.toordinal(): 1 for 0001-01-01
toordinal(d) ==
    LET y == d.year - 1
    IN  y * 365 + (y \div 4) - (y \div 100) + (y \div 400)
        + DaysBeforeMonth(d.year, d.month) + d.day

\* date.weekday(): Monday is 0, Sunday is 6
weekday(d) == (toordinal(d) + 6) % 7

\* (variant: a strict comparison)
DateLT(a, b) ==
    \/ a.year < b.year
    \/ a.year = b.year /\ a.month < b.month
    \/ a.year = b.year /\ a.month = b.month /\ a.day < b.day

\* a <= b on dates: the (year, month, day) triples compared in order
DateLE(a, b) ==
    \/ a.year < b.year
    \/ a.year = b.year /\ a.month < b.month
    \/ a.year = b.year /\ a.month = b.month /\ a.day <= b.day

\* (a - b).days
DaysBetween(a, b) == toordinal(a) - toordinal(b)

\* the day after d
Tomorrow(d) ==
    IF d.day < monthrange(d.year, d.month) THEN date(d.year, d.month, d.day + 1)
    ELSE IF d.month < 12 THEN date(d.year, d.month + 1, 1)
    ELSE date(d.year + 1, 1, 1)

-----------------------------------------------------------------------------
(* school_calendar.py *)

SCHOOL_HOLIDAYS == <<
    <<date(2025, 10, 18), date(2025, 11, 2)>>,
    <<date(2025, 12, 20), date(2026, 1, 4)>>,
    <<date(2026, 2, 21),  date(2026, 3, 8)>>,
    <<date(2026, 4, 18),  date(2026, 5, 3)>>,
    <<date(2026, 5, 14),  date(2026, 5, 17)>>,
    <<date(2026, 7, 4),   date(2026, 8, 31)>> >>

PUBLIC_HOLIDAYS == {
    date(2025, 11, 1), date(2025, 11, 11), date(2025, 12, 25),
    date(2026, 1, 1),  date(2026, 4, 6),   date(2026, 5, 1),
    date(2026, 5, 8),  date(2026, 5, 14),  date(2026, 5, 25),
    date(2026, 7, 14), date(2026, 8, 15) }

\* (variant: the loop returns after its first interval)
InVacationFirstOnly(d, i) ==
    i <= Len(SCHOOL_HOLIDAYS)
    /\ DateLE(SCHOOL_HOLIDAYS[i][1], d) /\ DateLE(d, SCHOOL_HOLIDAYS[i][2])

\* the for loop of is_school_day over SCHOOL_HOLIDAYS, from entry i on
RECURSIVE InVacationFrom(_, _)
InVacationFrom(d, i) ==
    IF i > Len(SCHOOL_HOLIDAYS) THEN FALSE
    ELSE IF DateLE(SCHOOL_HOLIDAYS[i][1], d) /\ DateLE(d, SCHOOL_HOLIDAYS[i][2])
         THEN TRUE
         ELSE InVacationFrom(d, i + 1)

is_school_day(d) ==
    IF weekday(d) >= 5 THEN FALSE
    ELSE IF d \in PUBLIC_HOLIDAYS THEN FALSE
    ELSE IF InVacationFrom(d, 1) THEN FALSE
    ELSE TRUE

\* round(x, 2) of a value given in thousandths, as cents (round-half-to-even)
round2(milli) ==
    LET q == milli \div 10
        r == milli % 10
    IN  IF r > 5 \/ (r = 5 /\ q % 2 = 1) THEN q + 1 ELSE q

\* (variant: Wednesdays are not skipped)
RECURSIVE CountSchoolDays(_, _, _, _)
CountSchoolDays(year, month, day, days_in_month) ==
    IF day > days_in_month THEN 0
    ELSE (IF is_school_day(date(year, month, day)) THEN 1 ELSE 0)
         + CountSchoolDays(year, month, day + 1, days_in_month)

\* the counting loop of calculate_girls_food, from day `day` on
RECURSIVE CountCanteenDays(_, _, _, _)
CountCanteenDays(year, month, day, days_in_month) ==
    IF day > days_in_month THEN 0
    ELSE IF weekday(date(year, month, day)) = 2
         THEN CountCanteenDays(year, month, day + 1, days_in_month)
         ELSE (IF is_school_day(date(year, month, day)) THEN 1 ELSE 0)
              + CountCanteenDays(year, month, day + 1, days_in_month)

\* count * 10.2 in thousandths, rounded to cents
GirlsFoodOf(year, month) ==
    LET days_in_month == monthrange(year, month)
        count == CountCanteenDays(year, month, 1, days_in_month)
    IN  round2(count * 10200)

\* the function is pure: its values are tabulated once for the modelled years
\* (the merge with the empty function makes the table an explicit one)
GirlsFoodTable == [ym \in Years \X (1..12) |-> GirlsFoodOf(ym[1], ym[2])] @@ << >>

calculate_girls_food(year, month) == GirlsFoodTable[<<year, month>>]

\* (variant: the 25th itself still counts as this month)
calculate_days_until_25_le(t) ==
    IF t.day <= 25 THEN 25 - t.day
    ELSE LET next_25 == IF t.month = 12 THEN date(t.year + 1, 1, 25)
                        ELSE date(t.year, t.month + 1, 25)
         IN  DaysBetween(next_25, t)

\* (variant: the month after December is taken in the same year)
calculate_days_until_25_same_year(t) ==
    IF t.day < 25 THEN 25 - t.day
    ELSE LET next_25 == date(t.year, (t.month % 12) + 1, 25)
         IN  DaysBetween(next_25, t)

calculate_days_until_25(t) ==
    IF t.day < 25 THEN 25 - t.day
    ELSE LET next_25 == IF t.month = 12 THEN date(t.year + 1, 1, 25)
                        ELSE date(t.year, t.month + 1, 25)
         IN  DaysBetween(next_25, t)

-----------------------------------------------------------------------------
(* app.py: compute_remaining *)

\* (variant: the cleared flag is not looked at)
CountedIgnoringCleared(r) == Truthy(r.amount)

\* `not r['is_cleared'] and r['amount']` of the generator conditions
Counted(r) == r.is_cleared = 0 /\ Truthy(r.amount)

\* (variant: income rounded up)
RECURSIVE income_sum_ceil(_)
income_sum_ceil(items) ==
    IF items = << >> THEN 0
    ELSE (IF Counted(Head(items)) THEN ceil(Val(Head(items).amount)) ELSE 0)
         + income_sum_ceil(Tail(items))

\* sum(math.floor(r['amount']) for r in income_items if not cleared and amount)
RECURSIVE income_sum(_)
income_sum(items) ==
    IF items = << >> THEN 0
    ELSE (IF Counted(Head(items)) THEN floor(Val(Head(items).amount)) ELSE 0)
         + income_sum(Tail(items))

\* (variant: expenses rounded down)
RECURSIVE expense_sum_floor(_)
expense_sum_floor(items) ==
    IF items = << >> THEN 0
    ELSE (IF Counted(Head(items)) THEN floor(Val(Head(items).amount)) ELSE 0)
         + expense_sum_floor(Tail(items))

\* sum(math.ceil(r['amount']) for r in expense_items if not cleared and amount)
RECURSIVE expense_sum(_)
expense_sum(items) ==
    IF items = << >> THEN 0
    ELSE (IF Counted(Head(items)) THEN ceil(Val(Head(items).amount)) ELSE 0)
         + expense_sum(Tail(items))

\* sum(math.ceil(r['amount']) for r in pending_transactions)
RECURSIVE pending_sum(_)
pending_sum(items) ==
    IF items = << >> THEN 0
    ELSE ceil(Val(Head(items).amount)) + pending_sum(Tail(items))

\* the scalars are in cents, the three sums in whole units, the result in units
compute_remaining(balance, future, savings_ignore, girls_total, income_items, expense_items, pending) ==
    LET raw == balance + future + income_sum(income_items) * Unit
               - expense_sum(expense_items) * Unit - pending_sum(pending) * Unit
               - savings_ignore - girls_total
    IN  floor(raw)

-----------------------------------------------------------------------------
(* Direct calls of compute_remaining on inputs drawn from bounded sets *)

MaxItems == 3

IncomeAmounts  == {None, Num(0), Num(10070), Num(5000), Num(-250)}
ExpenseAmounts == {None, Num(0), Num(3030), Num(-250)}
PendingAmounts == {Num(1999), Num(-50)}
Flags == {0, 1}

IncomeRecords  == [amount : IncomeAmounts, is_cleared : Flags]
ExpenseRecords == [amount : ExpenseAmounts, is_cleared : Flags]
PendingRecords == [amount : PendingAmounts]

\* <<balance, future, savings_ignore, girls_total>> in cents
ScalarCases == {<<0, 0, 0, 0>>, <<-75, 50, 120, 1000>>, <<12345, 0, 0, 0>>}

\* no direct call is being made
NoArgs == [balance |-> 0, future |-> 0, savings_ignore |-> 0, girls_total |-> 0,
           income_items |-> << >>, expense_items |-> << >>,
           pending_transactions |-> << >>]

NoResult == [called |-> FALSE, ret |-> 0]

InitCall ==
    /\ \E i \in 0..MaxItems : \E e \in 0..(MaxItems - i) : \E p \in 0..(MaxItems - i - e) :
       \E inc \in [1..i -> IncomeRecords], exp \in [1..e -> ExpenseRecords],
          pen \in [1..p -> PendingRecords] :
       \E sc \in ScalarCases :
          args = [balance |-> sc[1], future |-> sc[2], savings_ignore |-> sc[3],
                  girls_total |-> sc[4],
                  income_items |-> inc, expense_items |-> exp,
                  pending_transactions |-> pen]
    /\ result = NoResult

CallComputeRemaining ==
    /\ ~result.called
    /\ result' = [called |-> TRUE,
                  ret |-> compute_remaining(args.balance, args.future,
                             args.savings_ignore, args.girls_total,
                             args.income_items, args.expense_items,
                             args.pending_transactions)]
    /\ UNCHANGED args

SpecRemainingNext == CallComputeRemaining /\ UNCHANGED <<calendar_vars, page, db_vars>>

-----------------------------------------------------------------------------
(* app.py: the tables as init_db leaves them *)

\* EXPENSE_TEMPLATE.  Each row is named here by its name_en text; name_en and
\* debit_day are copied from row to row unread and are left out.
T(name, amount, is_income, is_variable, sort_order) ==
    [name |-> name, amount |-> amount, is_income |-> is_income,
     is_variable |-> is_variable, sort_order |-> sort_order]

EXPENSE_TEMPLATE == <<
    T("Tom's salary",             None,        1, 1, 1),
    T("Tamari's salary",          Num(120000), 1, 0, 2),
    T("CAF children",             Num(15000),  1, 0, 3),
    T("CAF housing",              None,        1, 1, 4),
    T("Medical insurance refund", None,        1, 1, 5),
    T("Work reimbursement",       None,        1, 1, 6),
    T("Rent",                     Num(168300), 0, 0, 7),
    T("EDF",                      Num(15100),  0, 1, 8),
    T("Navigo",                   Num(23000),  0, 1, 9),
    T("Phones & internet",        Num(9500),   0, 0, 10),
    T("Home insurance",           Num(1300),   0, 0, 11),
    T("Girls' school food",       None,        0, 0, 12),
    T("Bank fee",                 Num(2200),   0, 0, 13),
    T("Mutuelle",                 Num(21000),  0, 0, 14),
    T("Cash withdrawal",          None,        0, 1, 15) >>

\* the name the reset looks for
GIRLS_FOOD == "Girls' school food"

SettingKeys == {"balance", "future", "savings_ignore", "savings_ignore_at_reset",
                "girls_shachar", "girls_yaara"}

\* init_db on an empty database: default settings, the seeded template (ids in
\* insertion order), an empty ledger and no pending transaction
init_db ==
    /\ settings = [k \in SettingKeys |->
                      CASE k = "balance" -> 0
                        [] k = "future" -> 0
                        [] k = "savings_ignore" -> 870000
                        [] k = "savings_ignore_at_reset" -> 870000
                        [] k = "girls_shachar" -> 50000
                        [] k = "girls_yaara" -> 50000]
    /\ expense_template =
          {[id |-> i] @@ EXPENSE_TEMPLATE[i] : i \in 1..Len(EXPENSE_TEMPLATE)}
    /\ current_expenses = {}
    /\ pending_transactions = {}
    /\ seq = [current_expenses |-> 0, pending_transactions |-> 0]

\* what a POST request leaves behind: the status of its response, the exception
\* it ended with ("" when it returned) and the form of a month reset
Response(status, error, form) == [status |-> status, error |-> error, form |-> form]

NoRequest == Response(0, "", None)

InitDB(engines) ==
    /\ use_postgres \in engines
    /\ init_db
    /\ resets = 0
    /\ reset_mark = 0
    /\ last = NoRequest

NoPage == [rendered |-> FALSE, remaining |-> 0, days |-> 0, per_day |-> 0, guard |-> FALSE]
NoSchool == [called |-> FALSE, ret |-> FALSE]
NoFood == [called |-> FALSE, ret |-> 0]

InitRemaining ==
    /\ InitCall
    /\ today = date(FirstYear, 10, 1)
    /\ school = NoSchool
    /\ food = NoFood
    /\ page = NoPage
    /\ InitDB({FALSE})

SpecRemaining == InitRemaining /\ [][SpecRemainingNext]_vars

-----------------------------------------------------------------------------
(* Claims about compute_remaining (checked under SpecRemaining) *)

\* floor and ceiling by their defining inequalities
FloorOf(c) == CHOOSE k \in {c \div Unit - 1, c \div Unit, c \div Unit + 1} :
                 k * Unit <= c /\ c < (k + 1) * Unit
CeilOf(c) == CHOOSE k \in {c \div Unit - 1, c \div Unit, c \div Unit + 1} :
                 (k - 1) * Unit < c /\ c <= k * Unit

RECURSIVE SumFn(_, _)
SumFn(f, S) ==
    IF S = {} THEN 0
    ELSE LET x == CHOOSE y \in S : TRUE IN f[x] + SumFn(f, S \ {x})

\* positions of the items that are not cleared and have a non-null, non-zero amount
Included(items) ==
    {i \in DOMAIN items : items[i].is_cleared = 0 /\ items[i].amount # None
                          /\ Val(items[i].amount) # 0}

Excluded(r) == r.is_cleared # 0 \/ r.amount = None \/ Val(r.amount) = 0

ClaimedIncomeSum(items) ==
    SumFn([i \in Included(items) |-> FloorOf(Val(items[i].amount))], Included(items))
ClaimedExpenseSum(items) ==
    SumFn([i \in Included(items) |-> CeilOf(Val(items[i].amount))], Included(items))
ClaimedPendingSum(items) ==
    SumFn([i \in DOMAIN items |-> CeilOf(Val(items[i].amount))], DOMAIN items)

ExampleArgs ==
    [balance |-> 0, future |-> 0, savings_ignore |-> 0, girls_total |-> 0,
     income_items |-> <<[amount |-> Num(10070), is_cleared |-> 0],
                        [amount |-> Num(5000), is_cleared |-> 1]>>,
     expense_items |-> <<[amount |-> Num(3030), is_cleared |-> 0]>>,
     pending_transactions |-> << >>]

\* C1: compute_remaining returns floor(balance + future + income_sum - expense_sum
\* - pending_sum - savings_ignore - girls_total), income_sum being the sum of
\* floor(amount) over the uncleared income items with a non-null, non-zero amount,
\* expense_sum the sum of ceil(amount) over such expense items and pending_sum the
\* sum of ceil(amount) over all pending transactions; the example input gives 69.
C1_RemainingFormula ==
    result.called =>
        /\ result.ret =
              FloorOf(args.balance + args.future
                      + ClaimedIncomeSum(args.income_items) * Unit
                      - ClaimedExpenseSum(args.expense_items) * Unit
                      - ClaimedPendingSum(args.pending_transactions) * Unit
                      - args.savings_ignore - args.girls_total)
        /\ (args = ExampleArgs => result.ret = 69)

C1_Witness == result.called /\ args = ExampleArgs /\ result.ret = 69

RemoveAt(s, i) == SubSeq(s, 1, i - 1) \o SubSeq(s, i + 1, Len(s))
ReplaceAt(s, i, r) == [s EXCEPT ![i] = r]

CallWith(inc, exp) ==
    compute_remaining(args.balance, args.future, args.savings_ignore,
                      args.girls_total, inc, exp, args.pending_transactions)

\* C2: the result does not depend on excluded line items (cleared, or with a null
\* or zero amount): the call on the same lists without such an item, or with it
\* changed into any other excluded item, returns the same value (adding an
\* excluded item is the same comparison read from the shorter list); an uncleared
\* item with a non-null, non-zero amount enters its sum: without it the result is
\* lower by floor(amount) for an income item and higher by ceil(amount) for an
\* expense item.
C2_ExcludedItemsIgnored ==
    result.called =>
        LET inc == args.income_items
            exp == args.expense_items
        IN  /\ \A i \in DOMAIN inc :
                 IF Excluded(inc[i])
                 THEN /\ CallWith(RemoveAt(inc, i), exp) = result.ret
                      /\ \A x \in {y \in IncomeRecords : Excluded(y)} :
                            CallWith(ReplaceAt(inc, i, x), exp) = result.ret
                 ELSE CallWith(RemoveAt(inc, i), exp)
                         = result.ret - FloorOf(Val(inc[i].amount))
            /\ \A i \in DOMAIN exp :
                 IF Excluded(exp[i])
                 THEN /\ CallWith(inc, RemoveAt(exp, i)) = result.ret
                      /\ \A x \in {y \in ExpenseRecords : Excluded(y)} :
                            CallWith(inc, ReplaceAt(exp, i, x)) = result.ret
                 ELSE CallWith(inc, RemoveAt(exp, i))
                         = result.ret + CeilOf(Val(exp[i].amount))

\* a call whose income list holds a cleared item with an amount, an uncleared item
\* without one and a counted item, and whose expense list holds a cleared item
C2_Witness ==
    /\ result.called
    /\ \E i \in DOMAIN args.income_items :
          args.income_items[i].is_cleared = 1 /\ Truthy(args.income_items[i].amount)
    /\ \E i \in DOMAIN args.income_items :
          args.income_items[i].is_cleared = 0 /\ ~Truthy(args.income_items[i].amount)
    /\ \E i \in DOMAIN args.income_items : ~Excluded(args.income_items[i])
    /\ result.ret # 0

RawSum(items, idx) == SumFn([i \in idx |-> Val(items[i].amount)], idx)

\* the figure without any rounding, in cents
Unrounded ==
    args.balance + args.future
    + RawSum(args.income_items, Included(args.income_items))
    - RawSum(args.expense_items, Included(args.expense_items))
    - RawSum(args.pending_transactions, DOMAIN args.pending_transactions)
    - args.savings_ignore - args.girls_total

\* C3: the rounding is conservative: the returned value is at most the unrounded
\* figure, whatever the signs of the amounts; the income sum is at most the sum of
\* the counted income amounts and the expense and pending sums are at least the
\* sums of the amounts they count.
C3_ConservativeRounding ==
    result.called =>
        /\ result.ret * Unit <= Unrounded
        /\ income_sum(args.income_items) * Unit
              <= RawSum(args.income_items, Included(args.income_items))
        /\ expense_sum(args.expense_items) * Unit
              >= RawSum(args.expense_items, Included(args.expense_items))
        /\ pending_sum(args.pending_transactions) * Unit
              >= RawSum(args.pending_transactions, DOMAIN args.pending_transactions)

\* a call with a counted negative income, a counted negative expense and a negative
\* pending amount, whose result is strictly below the unrounded figure
C3_Witness ==
    /\ result.called
    /\ \E i \in Included(args.income_items) : Val(args.income_items[i].amount) < 0
    /\ \E i \in Included(args.expense_items) : Val(args.expense_items[i].amount) < 0
    /\ \E i \in DOMAIN args.pending_transactions :
          Val(args.pending_transactions[i].amount) < 0
    /\ result.ret * Unit < Unrounded

-----------------------------------------------------------------------------
(* Form values: request.form strings, str.strip and float *)

FormValues == {"", "  ", "abc", "100.7", "-2.5", "20000.5", " 12 ", "0"}

strip(v) == CASE v = "  " -> ""
              [] v = " 12 " -> "12"
              [] OTHER -> v

\* float(v) in cents, for the strings float accepts
FloatTable == ("100.7" :> 10070) @@ ("-2.5" :> -250) @@ ("20000.5" :> 2000050)
              @@ ("12" :> 1200) @@ ("0" :> 0)

\* float(v) raises ValueError
ValueError(v) == v \notin DOMAIN FloatTable
float(v) == FloatTable[v]

\* request.form.get(key, '')
FormGet(form, key) == IF key \in DOMAIN form THEN form[key] ELSE ""

-----------------------------------------------------------------------------
(* app.py: settings, update_balance and index *)

get_setting(key) == IF key \in DOMAIN settings THEN settings[key] ELSE 0

\* the value upsert_setting leaves in a settings table
upsert_setting(table, key, value) ==
    [k \in DOMAIN table \cup {key} |-> IF k = key THEN value ELSE table[k]]

BalanceKeys == <<"balance", "future", "savings_ignore">>

\* the loop of update_balance from key i on: each set_setting commits on its
\* own, and a ValueError ends the request with the earlier keys already stored
RECURSIVE UpdateBalanceFrom(_, _, _)
UpdateBalanceFrom(table, form, i) ==
    IF i > Len(BalanceKeys) THEN [settings |-> table, status |-> 302]
    ELSE LET val == strip(FormGet(form, BalanceKeys[i]))
         IN  IF val = "" THEN UpdateBalanceFrom(table, form, i + 1)
             ELSE IF ValueError(val) THEN [settings |-> table, status |-> 500]
             ELSE UpdateBalanceFrom(upsert_setting(table, BalanceKeys[i], float(val)),
                                    form, i + 1)

update_balance(form) ==
    LET out == UpdateBalanceFrom(settings, form, 1)
    IN  /\ settings' = out.settings
        /\ last' = Response(out.status,
                             IF out.status = 500 THEN "ValueError" ELSE "", None)
        /\ UNCHANGED <<use_postgres, expense_template, current_expenses,
                       pending_transactions, seq, resets, reset_mark>>

\* ORDER BY sort_order: SQL leaves the order of equal keys open; here the lower
\* id comes first
Before(a, b) ==
    a.sort_order < b.sort_order \/ (a.sort_order = b.sort_order /\ a.id < b.id)

InsertSorted(s, x) ==
    LET k == Cardinality({i \in DOMAIN s : Before(s[i], x)})
    IN  SubSeq(s, 1, k) \o <<x>> \o SubSeq(s, k + 1, Len(s))

\* SELECT ... ORDER BY sort_order, as a list
RECURSIVE OrderBySortOrder(_)
OrderBySortOrder(rows) ==
    IF rows = {} THEN << >>
    ELSE LET x == CHOOSE r \in rows : TRUE
         IN  InsertSorted(OrderBySortOrder(rows \ {x}), x)

\* SELECT * FROM pending_transactions ORDER BY created_at DESC, as a list
RECURSIVE OrderByCreatedDesc(_)
OrderByCreatedDesc(rows) ==
    IF rows = {} THEN << >>
    ELSE LET first == CHOOSE r \in rows : \A q \in rows : q.id <= r.id
         IN  <<first>> \o OrderByCreatedDesc(rows \ {first})

\* (variant: int() truncation instead of math.floor)
truncdiv(a, b) == IF a >= 0 THEN a \div b ELSE -((-a) \div b)

\* math.floor(a / b) for b > 0
floordiv(a, b) == a \div b

index ==
    LET income_items == OrderBySortOrder({r \in current_expenses : r.is_income = 1})
        expense_items == OrderBySortOrder({r \in current_expenses : r.is_income = 0})
        pending == OrderByCreatedDesc(pending_transactions)
        girls_total == get_setting("girls_shachar") + get_setting("girls_yaara")
        remaining == compute_remaining(get_setting("balance"), get_setting("future"),
                                       get_setting("savings_ignore"), girls_total,
                                       income_items, expense_items, pending)
        days == calculate_days_until_25(today)
    IN  /\ page' = [rendered |-> TRUE, remaining |-> remaining, days |-> days,
                    per_day |-> IF days > 0 THEN floordiv(remaining, days) ELSE 0,
                    guard |-> ~(days > 0)]
        /\ UNCHANGED <<calendar_vars, call_vars, db_vars>>

-----------------------------------------------------------------------------
(* The calendar engine over every day of the modelled years *)

\* midnight passes; what was computed for the old date is dropped
NextDay ==
    /\ Tomorrow(today) \in Dates
    /\ today' = Tomorrow(today)
    /\ school' = NoSchool
    /\ food' = NoFood
    /\ page' = NoPage
    /\ UNCHANGED <<call_vars, db_vars>>

CallIsSchoolDay ==
    /\ ~school.called
    /\ school' = [called |-> TRUE, ret |-> is_school_day(today)]
    /\ UNCHANGED <<today, food, page, call_vars, db_vars>>

\* the GET branch of month_reset: it shows calculate_girls_food for this month
month_reset_get ==
    /\ ~food.called
    /\ food' = [called |-> TRUE, ret |-> calculate_girls_food(today.year, today.month)]
    /\ UNCHANGED <<today, school, page, call_vars, db_vars>>

CalendarForms == {[balance |-> v] : v \in {"20000.5", "0"}}

CalendarUpdateBalance ==
    /\ \E form \in CalendarForms : update_balance(form)
    /\ page' = NoPage
    /\ UNCHANGED <<calendar_vars, call_vars>>

CalendarIndex == ~page.rendered /\ index

InitCalendar ==
    /\ today \in Dates
    /\ school = NoSchool
    /\ food = NoFood
    /\ page = NoPage
    /\ args = NoArgs
    /\ result = NoResult
    /\ InitDB({FALSE})

SpecCalendarNext ==
    \/ NextDay
    \/ CallIsSchoolDay
    \/ month_reset_get
    \/ CalendarIndex
    \/ CalendarUpdateBalance

SpecCalendar == InitCalendar /\ [][SpecCalendarNext]_vars

-----------------------------------------------------------------------------
(* Claims about the calendar engine and per_day (checked under SpecCalendar) *)

\* C4: calculate_days_until_25 returns 25 - today.day before the 25th, and from
\* the 25th on the number of calendar days up to the 25th of the next calendar
\* month (the rest of this month plus 25, January following December): 24 on the
\* 1st of any month, 31 on 25 December.
C4_DaysUntil25 ==
    page.rendered =>
        /\ page.days = IF today.day < 25 THEN 25 - today.day
                       ELSE (monthrange(today.year, today.month) - today.day) + 25
        /\ (today.day = 1 => page.days = 24)
        /\ (today.month = 12 /\ today.day = 25 => page.days = 31)

\* index rendered on a 25 December
C4_Witness ==
    page.rendered /\ today.month = 12 /\ today.day = 25 /\ page.days = 31

\* C5: for every today, calculate_days_until_25 returns at least 1, and index
\* never takes the branch that guards days > 0.
C5_DaysAtLeastOne == page.rendered => (page.days >= 1 /\ ~page.guard)

\* index rendered on 31 December of a leap year
C5_Witness ==
    /\ page.rendered /\ today.month = 12 /\ today.day = 31 /\ IsLeap(today.year)
    /\ page.days = 25 /\ ~page.guard

\* the day of the week by Zeller's congruence, Monday being 0
DayOfWeek(d) ==
    LET m == IF d.month < 3 THEN d.month + 12 ELSE d.month
        y == IF d.month < 3 THEN d.year - 1 ELSE d.year
        h == (d.day + ((13 * (m + 1)) \div 5) + (y % 100) + ((y % 100) \div 4)
              + ((y \div 100) \div 4) + 5 * (y \div 100)) % 7
    IN  (h + 5) % 7

InsideVacation(d) ==
    \E i \in DOMAIN SCHOOL_HOLIDAYS :
        /\ toordinal(SCHOOL_HOLIDAYS[i][1]) <= toordinal(d)
        /\ toordinal(d) <= toordinal(SCHOOL_HOLIDAYS[i][2])

VacationEdge(d) ==
    \E i \in DOMAIN SCHOOL_HOLIDAYS : d \in {SCHOOL_HOLIDAYS[i][1], SCHOOL_HOLIDAYS[i][2]}

AfterVacation(d) ==
    \E i \in DOMAIN SCHOOL_HOLIDAYS : d = Tomorrow(SCHOOL_HOLIDAYS[i][2])

\* C6: is_school_day(d) holds exactly when d is a Monday to Friday, is no public
\* holiday and lies in no vacation interval, bounds included: the first and the
\* last day of a vacation are no school days, the day after the last day is one
\* when it is a weekday and no public holiday, and no Saturday or Sunday is one.
C6_SchoolDay ==
    school.called =>
        /\ school.ret = (/\ DayOfWeek(today) \in 0..4
                         /\ today \notin PUBLIC_HOLIDAYS
                         /\ ~InsideVacation(today))
        /\ (DayOfWeek(today) \in {5, 6} => ~school.ret)
        /\ (VacationEdge(today) => ~school.ret)
        /\ (AfterVacation(today) /\ DayOfWeek(today) \in 0..4
               /\ today \notin PUBLIC_HOLIDAYS /\ ~InsideVacation(today)
            => school.ret)

\* is_school_day called on the last day of a vacation that is a weekday
C6_Witness ==
    /\ school.called /\ ~school.ret
    /\ \E i \in DOMAIN SCHOOL_HOLIDAYS : today = SCHOOL_HOLIDAYS[i][2]
    /\ DayOfWeek(today) \in 0..4 /\ today \notin PUBLIC_HOLIDAYS

\* the days of today's month that are school days and no Wednesdays
CanteenDays ==
    {d \in 1..monthrange(today.year, today.month) :
        /\ DayOfWeek(date(today.year, today.month, d)) # 2
        /\ is_school_day(date(today.year, today.month, d))}

\* C7: calculate_girls_food(year, month) is 1020 cents for each day of the month
\* that is a school day and not a Wednesday; for October 2025 that is 10 days
\* and 102.00.
C7_GirlsFood ==
    food.called =>
        /\ food.ret = 1020 * Cardinality(CanteenDays)
        /\ (today.year = 2025 /\ today.month = 10
               => Cardinality(CanteenDays) = 10 /\ food.ret = 10200)

\* the cost computed in October 2025, a month with Wednesdays that are school days
C7_Witness ==
    /\ food.called /\ today.year = 2025 /\ today.month = 10 /\ food.ret = 10200
    /\ \E d \in 1..31 : DayOfWeek(date(2025, 10, d)) = 2 /\ is_school_day(date(2025, 10, d))

\* every day of today's month lies inside one and the same vacation interval
MonthInsideOneVacation ==
    \E i \in DOMAIN SCHOOL_HOLIDAYS :
        /\ toordinal(SCHOOL_HOLIDAYS[i][1]) <= toordinal(date(today.year, today.month, 1))
        /\ toordinal(date(today.year, today.month, monthrange(today.year, today.month)))
              <= toordinal(SCHOOL_HOLIDAYS[i][2])

\* C8: for a month that lies wholly inside one vacation interval (August 2026)
\* calculate_girls_food returns 0; July 2026, whose first three days precede the
\* summer vacation, is not such a month and its cost is not 0.
C8_VacationMonthCostsNothing ==
    food.called =>
        /\ (MonthInsideOneVacation => food.ret = 0)
        /\ (today.year = 2026 /\ today.month = 8 => MonthInsideOneVacation)
        /\ (today.year = 2026 /\ today.month = 7
               => ~MonthInsideOneVacation /\ food.ret # 0)

\* the cost computed in August 2026
C8_Witness ==
    food.called /\ today.year = 2026 /\ today.month = 8 /\ food.ret = 0

\* C9: per_day is floor(remaining / days_until_25) when days_until_25 > 0 and 0
\* otherwise, the floor being toward minus infinity for a negative remaining too,
\* so that per_day * days_until_25 <= remaining whenever days_until_25 > 0.
C9_PerDay ==
    page.rendered =>
        IF page.days > 0
        THEN /\ page.per_day * page.days <= page.remaining
             /\ page.remaining < (page.per_day + 1) * page.days
        ELSE page.per_day = 0

\* index rendered with a negative remaining that days_until_25 does not divide
C9_Witness ==
    /\ page.rendered /\ page.remaining < 0 /\ page.days > 1
    /\ page.per_day * page.days < page.remaining

-----------------------------------------------------------------------------
(* app.py: the ledger routes *)

Truthy01(x) == x # 0

\* the routes but month_reset fail through the ValueError of float only
Respond(route, status) ==
    last' = Response(status, IF status = 500 THEN "ValueError" ELSE "", None)

\* UPDATE current_expenses SET is_cleared=<flag> WHERE id=<expense_id>
SetCleared(rows, expense_id, flag) ==
    {IF r.id = expense_id THEN [r EXCEPT !.is_cleared = flag] ELSE r : r \in rows}

clear_expense(expense_id) ==
    /\ current_expenses' = SetCleared(current_expenses, expense_id, 1)
    /\ Respond("clear_expense", 302)
    /\ UNCHANGED <<use_postgres, settings, expense_template, pending_transactions,
                   seq, resets, reset_mark>>

unclear_expense(expense_id) ==
    /\ current_expenses' = SetCleared(current_expenses, expense_id, 0)
    /\ Respond("unclear_expense", 302)
    /\ UNCHANGED <<use_postgres, settings, expense_template, pending_transactions,
                   seq, resets, reset_mark>>

\* a blank value does nothing, a ValueError of float is swallowed
update_expense_amount(expense_id, amount) ==
    LET val == strip(amount)
    IN  /\ current_expenses' =
              IF val = "" \/ ValueError(val) THEN current_expenses
              ELSE {IF r.id = expense_id THEN [r EXCEPT !.amount = Num(float(val))]
                    ELSE r : r \in current_expenses}
        /\ Respond("update_expense_amount", 302)
        /\ UNCHANGED <<use_postgres, settings, expense_template, pending_transactions,
                       seq, resets, reset_mark>>

add_pending(name_in, amount_in) ==
    LET name == strip(name_in)
        amount == strip(amount_in)
        inserts == name # "" /\ amount # "" /\ ~ValueError(amount)
        id == seq.pending_transactions + 1
    IN  /\ pending_transactions' =
              IF inserts
              THEN pending_transactions
                      \cup {[id |-> id, name |-> name, amount |-> Num(float(amount))]}
              ELSE pending_transactions
        /\ seq' = IF inserts THEN [seq EXCEPT !.pending_transactions = id] ELSE seq
        /\ Respond("add_pending", 302)
        /\ UNCHANGED <<use_postgres, settings, expense_template, current_expenses,
                       resets, reset_mark>>

delete_pending(pending_id) ==
    /\ pending_transactions' = {r \in pending_transactions : r.id # pending_id}
    /\ Respond("delete_pending", 302)
    /\ UNCHANGED <<use_postgres, settings, expense_template, current_expenses,
                   seq, resets, reset_mark>>

\* POST /settings with the form keys amount_<tid> (`amounts`: tid -> text) and
\* variable_<tid> (`checked`: the ticked boxes).  A ValueError of float leaves
\* the request without its commit.  debit_day is not modelled.
settings_post(amounts, checked) ==
    LET bad == \E tid \in DOMAIN amounts :
                  strip(amounts[tid]) # "" /\ ValueError(strip(amounts[tid]))
        NewAmount(t) ==
            IF t.id \in DOMAIN amounts
            THEN (IF strip(amounts[t.id]) = "" THEN None
                  ELSE Num(float(strip(amounts[t.id]))))
            ELSE t.amount
    IN  /\ expense_template' =
              IF bad THEN expense_template
              ELSE {[t EXCEPT !.amount = NewAmount(t),
                              !.is_variable = IF t.id \in checked THEN 1 ELSE 0]
                    : t \in expense_template}
        /\ Respond("settings", IF bad THEN 500 ELSE 302)
        /\ UNCHANGED <<use_postgres, settings, current_expenses, pending_transactions,
                       seq, resets, reset_mark>>

\* (variant: the old ledger is kept)
DeleteNone(rows) == rows

\* DELETE FROM <table>
DeleteAll(rows) == {}

\* (variant: a typed value wins over the computed girls' food cost)
ResetAmountFormFirst(t, form, food_cost) ==
    IF Truthy01(t.is_variable) /\ strip(FormGet(form.var, t.id)) # ""
    THEN Num(float(strip(FormGet(form.var, t.id))))
    ELSE IF t.name = GIRLS_FOOD THEN Num(food_cost) ELSE t.amount

\* the amount month_reset gives the row of template t
ResetAmount(t, form, food_cost) ==
    IF t.name = GIRLS_FOOD THEN Num(food_cost)
    ELSE IF Truthy01(t.is_variable) /\ strip(FormGet(form.var, t.id)) # ""
         THEN Num(float(strip(FormGet(form.var, t.id))))
         ELSE t.amount

\* float(val) raises for the row of template t
ResetRaises(t, form) ==
    /\ t.name # GIRLS_FOOD
    /\ Truthy01(t.is_variable)
    /\ strip(FormGet(form.var, t.id)) # ""
    /\ ValueError(strip(FormGet(form.var, t.id)))

\* the loop of month_reset over the templates from position i on: the rows
\* inserted, the id counter reached and whether float raised
RECURSIVE ResetLoop(_, _, _, _, _, _)
ResetLoop(templates, i, form, food_cost, next_id, rows) ==
    IF i > Len(templates) THEN [rows |-> rows, next_id |-> next_id, raised |-> FALSE]
    ELSE LET t == templates[i]
         IN  IF ResetRaises(t, form)
             THEN [rows |-> rows, next_id |-> next_id, raised |-> TRUE]
             ELSE ResetLoop(templates, i + 1, form, food_cost, next_id + 1,
                     rows \cup {[id |-> next_id + 1, template_id |-> t.id,
                                 name |-> t.name,
                                 amount |-> ResetAmount(t, form, food_cost),
                                 is_income |-> t.is_income,
                                 is_variable |-> t.is_variable,
                                 is_cleared |-> 0, sort_order |-> t.sort_order]})

\* A connection that writes to `table` while another connection's transaction
\* has uncommitted writes to the tables `written`.  sqlite3 gives the write lock
\* of the database file to one connection at a time: the DELETE of an empty
\* table takes it too, and the connection that asks second gets
\* OperationalError (database is locked) once its timeout has run out.  psycopg2
\* locks the rows written, never a table the transaction did not write.
MustWait(written, table) ==
    IF use_postgres THEN table \in written ELSE written # {}

\* the tables the request's connection has written when set_setting is called
ResetWritten(form) ==
    {"current_expenses"}
        \cup (IF form.clear_pending # "" THEN {"pending_transactions"} ELSE {})

\* POST /month-reset.  The request's connection holds the uncommitted DELETE
\* while set_setting writes through a second connection.  Where that write
\* must wait, it waits for a transaction that ends only after set_setting
\* returns: it ends in OperationalError and the request's transaction is never
\* committed.  Where it need not, the setting is committed at once and the
\* ledger follows at the commit unless float raises in the loop; the SERIAL
\* counter keeps what the rolled-back inserts took.  (The abandoned sqlite3
\* connection keeps its lock until the interpreter collects it; the requests
\* that fail on it meanwhile change nothing, and are left out.)
month_reset_post(form) ==
    \E food_cost \in {calculate_girls_food(today.year, today.month)} :
    \E templates \in {OrderBySortOrder(expense_template)} :
    \E loop \in {ResetLoop(templates, 1, form, food_cost, seq.current_expenses,
                           DeleteAll(current_expenses))} :
        /\ resets' = resets + 1
        /\ IF MustWait(ResetWritten(form), "settings")
           THEN /\ last' = Response(500, "OperationalError", form)
                /\ UNCHANGED <<settings, current_expenses, pending_transactions, seq,
                               reset_mark>>
           ELSE /\ settings' = upsert_setting(settings, "savings_ignore_at_reset",
                                              get_setting("savings_ignore"))
                /\ seq' = [seq EXCEPT !.current_expenses = loop.next_id]
                /\ IF loop.raised
                   THEN /\ last' = Response(500, "ValueError", form)
                        /\ UNCHANGED <<current_expenses, pending_transactions,
                                       reset_mark>>
                   ELSE /\ current_expenses' = loop.rows
                        /\ pending_transactions' =
                              IF form.clear_pending # ""
                              THEN DeleteAll(pending_transactions)
                              ELSE pending_transactions
                        /\ reset_mark' = seq.current_expenses
                        /\ last' = Response(302, "", form)
        /\ UNCHANGED <<use_postgres, expense_template>>

-----------------------------------------------------------------------------
(* The ledger under requests drawn from bounded sets *)

MaxResets == 2
MaxPending == 1

\* the template whose ledger row the requests address: EDF, a variable expense
EditedTemplate == 8

\* the ids a request names: the addressed row of the ledger, and id 8, which is
\* that row in the first generation only
RequestIds ==
    {r.id : r \in {q \in current_expenses : q.template_id = EditedTemplate}} \cup {8}

\* var_12 is a value typed for the girls' food row, var_7 one for the rent
ResetForms ==
    {[clear_pending |-> c, var |-> (8 :> v) @@ (12 :> " 12 ") @@ (7 :> "0")] :
        c \in {"", "on"}, v \in {"", "100.7", "abc"}}

\* one template edited per POST, every other box left as it stands
BoxesAsTheyStand == {t.id : t \in {q \in expense_template : q.is_variable # 0}}
SettingsForms ==
    {[amounts |-> (8 :> v), checked |-> BoxesAsTheyStand] : v \in {"12", "abc"}}
    \cup {[amounts |-> << >>, checked |-> BoxesAsTheyStand \cup {12}]}

AppBalanceForms == {[savings_ignore |-> "100.7"], [balance |-> "abc"]}

AppDates == {date(2025, 10, 24), date(2026, 8, 25)}

PostMonthReset ==
    /\ resets < MaxResets
    /\ \E form \in ResetForms : month_reset_post(form)

PostClearExpense == \E id \in RequestIds : clear_expense(id)

PostUnclearExpense == \E id \in RequestIds : unclear_expense(id)

PostUpdateExpenseAmount ==
    \E id \in RequestIds : \E v \in {"", "abc", "-2.5"} : update_expense_amount(id, v)

PostAddPending ==
    /\ seq.pending_transactions < MaxPending
    /\ \E n \in {"", "shoes"} : \E v \in {"", "abc", "100.7"} : add_pending(n, v)

PostDeletePending ==
    \E id \in {r.id : r \in pending_transactions} \cup {0} : delete_pending(id)

PostUpdateBalance == \E form \in AppBalanceForms : update_balance(form)

PostSettings == \E form \in SettingsForms : settings_post(form.amounts, form.checked)

Init ==
    /\ today \in AppDates
    /\ school = NoSchool
    /\ food = NoFood
    /\ page = NoPage
    /\ args = NoArgs
    /\ result = NoResult
    /\ InitDB(BOOLEAN)

Next ==
    \/ (PostMonthReset /\ UNCHANGED <<calendar_vars, page, call_vars>>)
    \/ (PostClearExpense /\ UNCHANGED <<calendar_vars, page, call_vars>>)
    \/ (PostUnclearExpense /\ UNCHANGED <<calendar_vars, page, call_vars>>)
    \/ (PostUpdateExpenseAmount /\ UNCHANGED <<calendar_vars, page, call_vars>>)
    \/ (PostAddPending /\ UNCHANGED <<calendar_vars, page, call_vars>>)
    \/ (PostDeletePending /\ UNCHANGED <<calendar_vars, page, call_vars>>)
    \/ (PostUpdateBalance /\ UNCHANGED <<calendar_vars, page, call_vars>>)
    \/ (PostSettings /\ UNCHANGED <<calendar_vars, page, call_vars>>)

Spec == Init /\ [][Next]_vars

-----------------------------------------------------------------------------
(* Claims about the ledger (checked under Spec) *)

\* C10: after any sequence of month-reset, clear-expense, unclear-expense,
\* update-expense-amount, settings, add-pending and delete-pending requests on
\* the freshly initialised database, current_expenses is empty or holds exactly
\* one generation: one row for each expense_template row and for nothing else,
\* no two rows with the same template_id, and no row that existed before the
\* most recent completed reset began.
C10_OneGeneration ==
    \/ current_expenses = {}
    \/ /\ \A t \in expense_template :
             Cardinality({r \in current_expenses : r.template_id = t.id}) = 1
       /\ \A r \in current_expenses : \E t \in expense_template : t.id = r.template_id
       /\ Cardinality(current_expenses) = Cardinality(expense_template)
       /\ \A r \in current_expenses : r.id > reset_mark
       /\ \A r, q \in current_expenses : r.id = q.id => r = q

\* a second generation in place of a first one that had been cleared and edited
C10_Witness ==
    /\ current_expenses # {}
    /\ reset_mark > 0
    /\ \E r \in current_expenses : r.is_cleared = 1
    /\ \E r \in current_expenses : r.amount = Num(-250)

-----------------------------------------------------------------------------
(* Claims about the month reset (checked under Spec) *)

\* the step is a month-reset POST, and one that answered with `status`
ResetStep(status) == resets' = resets + 1 /\ last'.status = status

\* the amount the regenerated row of template t is said to have
ClaimedResetAmount(t, form) ==
    CASE t.name = GIRLS_FOOD ->
            Num(calculate_girls_food(today.year, today.month))
      [] t.name # GIRLS_FOOD /\ t.is_variable # 0 /\ t.id \in DOMAIN form.var
            /\ strip(form.var[t.id]) # "" ->
            Num(FloatTable[strip(form.var[t.id])])
      [] OTHER -> t.amount

\* C11: a month-reset POST that completes discards the whole previous ledger and
\* regenerates it from the template: no row of the old ledger is left, every
\* template has its new row, every new row is uncleared, and its amount is the
\* girls' food cost of today's month for the girls' school food row (whatever
\* the template amount and the form say), the non-blank form value var_<template
\* id> for a row whose template is variable, and the template's amount
\* otherwise; the expense_template rows are not changed.
C11_ResetRegenerates ==
    [][ResetStep(302) =>
          /\ expense_template' = expense_template
          /\ \A r \in current_expenses' :
                \A q \in current_expenses : r # q /\ r.id # q.id
          /\ \A t \in expense_template :
                \E r \in current_expenses' : r.template_id = t.id
          /\ \A r \in current_expenses' :
                /\ r.is_cleared = 0
                /\ \E t \in expense_template :
                      /\ t.id = r.template_id
                      /\ r.amount = ClaimedResetAmount(t, last'.form)
          /\ (today = date(2025, 10, 24) =>
                \E r \in current_expenses' :
                    r.name = GIRLS_FOOD /\ r.amount = Num(10200))
       ]_vars

\* the ledger of a second generation right after its reset, made with a number
\* typed for the variable EDF row and one typed for the girls' food row, whose
\* template a settings POST had made variable
C11_Witness ==
    /\ last.status = 302
    /\ last.error = ""
    /\ last.form \in ResetForms
    /\ reset_mark > 0
    /\ \E t \in expense_template : t.name = GIRLS_FOOD /\ t.is_variable = 1
    /\ \E r \in current_expenses :
          r.name = GIRLS_FOOD /\ r.amount = Num(10200) /\ r.is_variable = 1
    /\ \E r \in current_expenses :
          r.template_id = EditedTemplate /\ r.amount = Num(10070)
    /\ \A r \in current_expenses : r.is_cleared = 0

\* C12: month reset is all-or-nothing: when a month-reset POST aborts before its
\* commit (a var_<id> value that float rejects, or any other exception), no
\* persistent state has changed: current_expenses, pending_transactions and
\* every setting, savings_ignore_at_reset among them, are as they were before
\* the request.
C12_ResetAllOrNothing ==
    [][ResetStep(500) =>
          /\ current_expenses' = current_expenses
          /\ pending_transactions' = pending_transactions
          /\ settings' = settings
       ]_vars

\* every var_<id> value of the form is blank or a number
WellFormed(form) ==
    \A id \in DOMAIN form.var :
        strip(form.var[id]) = "" \/ strip(form.var[id]) \in DOMAIN FloatTable

\* C13: a month-reset POST with well-formed form values always runs to its
\* commit and installs the new ledger: the write that set_setting makes and
\* commits through a second connection, while the request's first connection
\* holds the uncommitted DELETE on current_expenses, never has to wait for the
\* write lock of the request's own transaction.
C13_ResetNeverWaitsOnItself ==
    [][(resets' = resets + 1 /\ WellFormed(last'.form)) =>
          /\ last'.error # "OperationalError"
          /\ last'.status = 302
          /\ current_expenses' # {}
          /\ \A r \in current_expenses' : r.id > seq.current_expenses
       ]_vars

====
